---- MODULE Spec2Model ----
(***************************************************************************)
(* Duplicate detection and review workflow of the MDM application          *)
(* (src/mdm/services/duplicate_service.py) over the SQLite store           *)
(* (src/mdm/config/database.py, src/mdm/models/audit.py, client.py,        *)
(* product.py, supplier.py) and the review page (src/mdm/pages/            *)
(* duplicates.py).                                                         *)
(*                                                                         *)
(* Scores and thresholds are in ten-thousandths (0.8 is written 8000).     *)
(***************************************************************************)
EXTENDS Integers, Sequences, FiniteSets, TLC

(* ---------------------------------------------------------------------- *)
(* Bounds of the model                                                     *)
(* ---------------------------------------------------------------------- *)
MaxRec == 3      \* entity rows per table: ids 1..MaxRec
MaxRows == 2     \* candidate rows ever inserted (AUTOINCREMENT ids 1..MaxRows)
MaxClock == 2    \* resolution timestamps handed out
MaxAudit == 2    \* audit_trail entries appended
MaxGone == 1     \* entity rows removed by other writers of the database

Tables == {"clients", "products", "suppliers"}
Ids == 1..MaxRec
Users == {"alice"}
None == "None"                       \* SQL NULL / Python None in a text column
Thresholds == {1000, 3000}           \* thresholds the callers pass: 0.1 and 0.3
Runners == {"r1", "r2"}              \* calls of detect_* in flight together (SpecConc)

(* ---------------------------------------------------------------------- *)
(* Text.  A str is a sequence of one-character strings.                    *)
(* ---------------------------------------------------------------------- *)
Digits == {"1", "2", "3"}
LowerLetters == {"a", "b", "c", "p"}
UpperLetters == {"A", "P"}

\* str.lower() on one character
LowerChar(c) == IF c = "A" THEN "a" ELSE IF c = "P" THEN "p" ELSE c
\* str.lower()
Lower(text) == [i \in 1..Len(text) |-> LowerChar(text[i])]

\* str.strip(): leading and trailing whitespace removed
RECURSIVE Strip(_)
Strip(text) ==
    IF Len(text) = 0 THEN text
    ELSE IF text[1] = " " THEN Strip(Tail(text))
    ELSE IF text[Len(text)] = " " THEN Strip(SubSeq(text, 1, Len(text) - 1))
    ELSE text

\* ''.join(filter(pred, text)) for the characters of the set keep
RECURSIVE Filter(_, _)
Filter(text, keep) ==
    IF Len(text) = 0 THEN <<>>
    ELSE (IF text[1] \in keep THEN <<text[1]>> ELSE <<>>) \o Filter(Tail(text), keep)

(* ---------------------------------------------------------------------- *)
(* difflib.SequenceMatcher(None, a, b).ratio() for texts shorter than the  *)
(* 200 characters at which difflib starts to treat popular characters as   *)
(* junk.  Positions are 1-based, ranges inclusive.                         *)
(* ---------------------------------------------------------------------- *)

\* the length of the common run of a from i and b from j inside the ranges
RECURSIVE RunLen(_, _, _, _, _, _)
RunLen(a, b, i, j, ahi, bhi) ==
    IF i > ahi \/ j > bhi THEN 0
    ELSE IF a[i] # b[j] THEN 0
    ELSE 1 + RunLen(a, b, i + 1, j + 1, ahi, bhi)

\* find_longest_match: the longest block a[i..i+k-1] = b[j..j+k-1] in the
\* ranges; of the longest blocks the one that starts earliest in a, and of
\* those the one that starts earliest in b
FindLongestMatch(a, b, alo, ahi, blo, bhi) ==
    LET starts == (alo..ahi) \X (blo..bhi)
        best == CHOOSE x \in starts :
                    \A y \in starts :
                        LET kx == RunLen(a, b, x[1], x[2], ahi, bhi)
                            ky == RunLen(a, b, y[1], y[2], ahi, bhi)
                        IN \/ kx > ky
                           \/ kx = ky /\ x[1] < y[1]
                           \/ kx = ky /\ x[1] = y[1] /\ x[2] <= y[2]
    IN [i |-> best[1], j |-> best[2], k |-> RunLen(a, b, best[1], best[2], ahi, bhi)]

\* get_matching_blocks: the sum of the sizes of the matching blocks, found by
\* taking the longest match and then matching to its left and to its right
RECURSIVE Matches(_, _, _, _, _, _)
Matches(a, b, alo, ahi, blo, bhi) ==
    IF alo > ahi \/ blo > bhi THEN 0
    ELSE LET m == FindLongestMatch(a, b, alo, ahi, blo, bhi) IN
         IF m.k = 0 THEN 0
         ELSE Matches(a, b, alo, m.i - 1, blo, m.j - 1) + m.k
              + Matches(a, b, m.i + m.k, ahi, m.j + m.k, bhi)

\* ratio(): 2.0 * matches / (len(a) + len(b)), 1.0 for two empty texts; in
\* hundredths, rounded down
Ratio(a, b) ==
    IF Len(a) + Len(b) = 0 THEN 100
    ELSE (200 * Matches(a, b, 1, Len(a), 1, Len(b))) \div (Len(a) + Len(b))

\* calculate_similarity(text1, text2), in hundredths
CalculateSimilarity(text1, text2) ==
    IF Len(text1) = 0 \/ Len(text2) = 0 THEN 0
    ELSE Ratio(Strip(Lower(text1)), Strip(Lower(text2)))

\* normalize_document(document): lower, then the alphanumeric characters only
NormalizeDocument(document) ==
    IF Len(document) = 0 THEN <<>>
    ELSE Filter(Lower(document), Digits \cup LowerLetters)

(* ---------------------------------------------------------------------- *)
(* The scorers.  Each builds the list scores of (field score * weight) for *)
(* the fields it compares and returns sum(scores) / len(scores).  Field    *)
(* scores are in hundredths and weights in hundredths, so a score is in    *)
(* ten-thousandths (0.8 is 8000), rounded down.                            *)
(* ---------------------------------------------------------------------- *)
RECURSIVE Sum(_)
Sum(scores) == IF Len(scores) = 0 THEN 0 ELSE Head(scores) + Sum(Tail(scores))

\* sum(scores) / len(scores) if scores else 0.0
MeanOf(scores) == IF Len(scores) = 0 THEN 0 ELSE Sum(scores) \div Len(scores)

ExactMatch(x, y) == IF x = y THEN 100 ELSE 0

\* the list scores of _calculate_client_similarity
ClientScores(client1, client2) ==
    LET doc1 == NormalizeDocument(client1.document_number)
        doc2 == NormalizeDocument(client2.document_number)
    IN <<CalculateSimilarity(client1.name, client2.name) * 40>>
       \o (IF Len(doc1) > 0 /\ Len(doc2) > 0 THEN <<ExactMatch(doc1, doc2) * 30>> ELSE <<>>)
       \o (IF Len(client1.email) > 0 /\ Len(client2.email) > 0
           THEN <<CalculateSimilarity(client1.email, client2.email) * 20>> ELSE <<>>)
       \o (IF Len(client1.phone) > 0 /\ Len(client2.phone) > 0
           THEN <<CalculateSimilarity(Filter(client1.phone, Digits),
                                      Filter(client2.phone, Digits)) * 10>>
           ELSE <<>>)

\* the list scores of _calculate_product_similarity
ProductScores(product1, product2) ==
    (IF Len(product1.code) > 0 /\ Len(product2.code) > 0
     THEN <<ExactMatch(Lower(product1.code), Lower(product2.code)) * 40>> ELSE <<>>)
    \o <<CalculateSimilarity(product1.name, product2.name) * 40>>
    \o (IF Len(product1.description) > 0 /\ Len(product2.description) > 0
        THEN <<CalculateSimilarity(product1.description, product2.description) * 20>>
        ELSE <<>>)

\* the list scores of _calculate_supplier_similarity
SupplierScores(supplier1, supplier2) ==
    LET doc1 == NormalizeDocument(supplier1.document_number)
        doc2 == NormalizeDocument(supplier2.document_number)
    IN <<CalculateSimilarity(supplier1.name, supplier2.name) * 40>>
       \o (IF Len(doc1) > 0 /\ Len(doc2) > 0 THEN <<ExactMatch(doc1, doc2) * 30>> ELSE <<>>)
       \o (IF Len(supplier1.email) > 0 /\ Len(supplier2.email) > 0
           THEN <<CalculateSimilarity(supplier1.email, supplier2.email) * 20>> ELSE <<>>)
       \o (IF Len(supplier1.contact_person) > 0 /\ Len(supplier2.contact_person) > 0
           THEN <<CalculateSimilarity(supplier1.contact_person,
                                      supplier2.contact_person) * 10>>
           ELSE <<>>)

\* _calculate_client_similarity / _calculate_product_similarity /
\* _calculate_supplier_similarity, by table
FieldScores(t, record1, record2) ==
    IF t = "clients" THEN ClientScores(record1, record2)
    ELSE IF t = "products" THEN ProductScores(record1, record2)
    ELSE SupplierScores(record1, record2)
CalculateRecordSimilarity(t, record1, record2) == MeanOf(FieldScores(t, record1, record2))

(* ---------------------------------------------------------------------- *)
(* Registered entity rows.  The core reads their fields and never writes   *)
(* them; what it reads is the name order (ORDER BY name) and the score of  *)
(* each pair (_calculate_*_similarity).  Clients 1 and 2 have the same     *)
(* name, and so have the rows after the third of a table; rows sort by     *)
(* name, rows of equal name in any order.                                  *)
(* ---------------------------------------------------------------------- *)
NameRank(t, i) == IF t = "clients" /\ i <= 2 THEN 1 ELSE IF i > 3 THEN 4 ELSE i

NoText == <<>>
Client(name, document_number) ==
    [name |-> name, document_number |-> document_number, email |-> NoText, phone |-> NoText]
Product(name) == [code |-> NoText, name |-> name, description |-> NoText]
Supplier(name) ==
    [name |-> name, document_number |-> NoText, email |-> NoText, contact_person |-> NoText]

\* the rows of a table: those listed, then rows like last
RowsOfTable(listed, last) == [i \in Ids |-> IF i <= Len(listed) THEN listed[i] ELSE last]

\* the score of every ordered pair of rows of every table
ScoresOf(rows) ==
    [t \in Tables |-> [x \in {y \in Ids \X Ids : y[1] # y[2]} |->
        CalculateRecordSimilarity(t, rows[t][x[1]], rows[t][x[2]])]]

\* Clients 1 and 2, same name and no other field on both, score 0.4; clients
\* 1 and 3, same document and unlike names, score 0.15; every other pair of
\* the first three rows of a table 0.
ClientsRows ==
    [clients |-> RowsOfTable(<<Client(<<"a", "b", "a">>, <<"1", "2">>),
                               Client(<<"a", "b", "a">>, NoText),
                               Client(<<"p">>, <<"1", "-", "2">>)>>,
                             Client(<<"q">>, NoText)),
     products |-> RowsOfTable(<<Product(<<"a">>), Product(<<"b">>), Product(<<"p">>)>>,
                              Product(<<"q">>)),
     suppliers |-> RowsOfTable(<<Supplier(<<"a">>), Supplier(<<"b">>), Supplier(<<"p">>)>>,
                               Supplier(<<"q">>))]
ClientsData == ScoresOf(ClientsRows)

\* Clients 1 and 2, same name, score 0.4; products 1 and 2, like names, score
\* 0.264; every other pair of the first three rows of a table 0.
TwoTablesRows ==
    [clients |-> RowsOfTable(<<Client(<<"a", "b", "a">>, NoText),
                               Client(<<"a", "b", "a">>, NoText),
                               Client(<<"p">>, NoText)>>,
                             Client(<<"q">>, NoText)),
     products |-> RowsOfTable(<<Product(<<"a", "b", "a">>), Product(<<"a", "b", "c">>),
                                Product(<<"p">>)>>,
                              Product(<<"q">>)),
     suppliers |-> RowsOfTable(<<Supplier(<<"a">>), Supplier(<<"b">>), Supplier(<<"p">>)>>,
                               Supplier(<<"q">>))]
TwoTablesData == ScoresOf(TwoTablesRows)

Datasets == {ClientsData}

VARIABLES
    records,               \* clients / products / suppliers: status of each row
    score,                 \* registered data: the score of each ordered pair of rows
    current_username,      \* AuthService.get_current_username() of the session
    potential_duplicates,  \* rows of the potential_duplicates table
    nextId,                \* next AUTOINCREMENT id of potential_duplicates
    audit_trail,           \* rows of audit_trail written by the entity models
    now,                   \* CURRENT_TIMESTAMP, as a logical clock
    views,                 \* PotentialDuplicate objects held by the review page
    ret,                   \* the last call and what it returned
    resolved,              \* history: (table, pair) whose candidate was resolved
    runs                   \* the calls of detect_* in flight together (SpecConc)

vars == <<records, score, current_username, potential_duplicates, nextId,
          audit_trail, now, views, ret, resolved, runs>>

\* the value _calculate_client_similarity / _calculate_product_similarity /
\* _calculate_supplier_similarity returns for rows id1, id2 of table t
Similarity(t, id1, id2) == score[t][<<id1, id2>>]

(* ---------------------------------------------------------------------- *)
(* potential_duplicates: constructor, existence check, save                *)
(* ---------------------------------------------------------------------- *)

\* PotentialDuplicate.__init__ as called by the detect_* functions
PotentialDuplicate(t, id1, id2, s) ==
    [id |-> 0, table_name |-> t, record_id_1 |-> id1, record_id_2 |-> id2,
     similarity_score |-> s, status |-> "pending",
     reviewed_by |-> None, reviewed_at |-> 0]

\* Variants of _duplicate_exists that the properties below must tell from the
\* code's: the pair looked up in the order given only; COUNT(*) > 1 for
\* COUNT(*) > 0; pending rows only.
DuplicateExistsOneOrder(rows, t, id1, id2) ==
    Cardinality({r \in rows : /\ r.table_name = t
                              /\ r.record_id_1 = id1 /\ r.record_id_2 = id2}) > 0
DuplicateExistsOffByOne(rows, t, id1, id2) ==
    Cardinality({r \in rows : /\ r.table_name = t
                              /\ \/ (r.record_id_1 = id1 /\ r.record_id_2 = id2)
                                 \/ (r.record_id_1 = id2 /\ r.record_id_2 = id1)}) > 1
DuplicateExistsPendingOnly(rows, t, id1, id2) ==
    Cardinality({r \in rows : /\ r.table_name = t /\ r.status = "pending"
                              /\ \/ (r.record_id_1 = id1 /\ r.record_id_2 = id2)
                                 \/ (r.record_id_1 = id2 /\ r.record_id_2 = id1)}) > 0

\* Variant of _duplicate_exists that the properties below must tell from the
\* code's: the second alternative of the WHERE clause compares record_id_2
\* with the wrong parameter.
DuplicateExistsSecondOrderWrong(rows, t, id1, id2) ==
    Cardinality({r \in rows : /\ r.table_name = t
                              /\ \/ (r.record_id_1 = id1 /\ r.record_id_2 = id2)
                                 \/ (r.record_id_1 = id2 /\ r.record_id_2 = id2)}) > 0

\* Variant of _duplicate_exists that the properties below must tell from the
\* code's: table_name = ? is missing from the WHERE clause.
DuplicateExistsAnyTable(rows, t, id1, id2) ==
    Cardinality({r \in rows : \/ (r.record_id_1 = id1 /\ r.record_id_2 = id2)
                              \/ (r.record_id_1 = id2 /\ r.record_id_2 = id1)}) > 0

\* _duplicate_exists: COUNT(*) of rows of the table with the pair in either order
DuplicateExists(rows, t, id1, id2) ==
    Cardinality({r \in rows : /\ r.table_name = t
                              /\ \/ (r.record_id_1 = id1 /\ r.record_id_2 = id2)
                                 \/ (r.record_id_1 = id2 /\ r.record_id_2 = id1)}) > 0

\* PotentialDuplicate.save, self.id is None: INSERT, id := lastrowid.  The table
\* has a surrogate key and no UNIQUE constraint on (table_name, record_id_1,
\* record_id_2): every INSERT is accepted.
SaveInsert(rows, nid, d) == rows \cup {[d EXCEPT !.id = nid]}

\* Variant of SaveUpdate that the properties below must tell from the code's:
\* the UPDATE has no WHERE clause.
SaveUpdateEveryRow(rows, id, st, by, at) ==
    {[r EXCEPT !.status = st, !.reviewed_by = by, !.reviewed_at = at] : r \in rows}

\* Variant of SaveUpdate that the properties below must tell from the code's:
\* reviewed_by is not among the columns the UPDATE sets.
SaveUpdateWithoutReviewer(rows, id, st, by, at) ==
    {IF r.id = id THEN [r EXCEPT !.status = st, !.reviewed_at = at] ELSE r : r \in rows}

\* PotentialDuplicate.save, self.id set: UPDATE ... WHERE id = ? (no row, no error)
SaveUpdate(rows, id, st, by, at) ==
    {IF r.id = id THEN [r EXCEPT !.status = st, !.reviewed_by = by, !.reviewed_at = at]
                  ELSE r : r \in rows}

\* the rows get_pending(table_name) selects; table_name None: no filter
PendingRows(tf) ==
    {r \in potential_duplicates : r.status = "pending" /\ (tf = None \/ r.table_name = tf)}

\* the fields of a loaded PotentialDuplicate that merge_records and
\* mark_as_not_duplicate read (status and reviewed_by are overwritten before save)
View(r) == [id |-> r.id, table_name |-> r.table_name,
            record_id_1 |-> r.record_id_1, record_id_2 |-> r.record_id_2]

(* ---------------------------------------------------------------------- *)
(* Entity repositories                                                     *)
(* ---------------------------------------------------------------------- *)

\* Variant of X.get_all that the properties below must tell from the code's:
\* the status filter is missing (get_all() with no argument).
ActiveIdsNoFilter(t) == {i \in Ids : records[t][i] # "absent"}

\* X.get_all(status='active'): SELECT ... WHERE status = 'active' ORDER BY name
ActiveIds(t) == {i \in Ids : records[t][i] = "active"}

\* X.get_by_id(id): SELECT * FROM x WHERE id = ?, with no condition on the
\* status: the row whatever its status (here: its status), None if there is none
GetById(t, i) == IF records[t][i] = "absent" THEN None ELSE records[t][i]

\* the lists ORDER BY name can return for the rows S of table t: sorted by
\* name, rows of equal name in any order
Orderings(t, S) ==
    {f \in [1..Cardinality(S) -> S] :
        \A i, j \in 1..Cardinality(S) :
            i < j => f[i] # f[j] /\ NameRank(t, f[i]) <= NameRank(t, f[j])}

\* X.delete(id, user): get_by_id, UPDATE status='deleted' on one connection,
\* INSERT INTO audit_trail committed on a second connection, then commit of the
\* first.  fail is what the database does to the call:
\*   "delete"  a storage call raises and the UPDATE is rolled back (the SELECT,
\*             the UPDATE, or the audit INSERT, which runs on the second
\*             connection while the first holds its uncommitted UPDATE and
\*             raises "database is locked" where SQLite enforces its file lock);
\*   "norow"   another writer of the database has removed the row: get_by_id
\*             finds nothing, now and from then on;
\*   anything else: the call runs to its end.
AuditEntry(t, i, user) ==
    [table_name |-> t, record_id |-> i, action |-> "DELETE", changed_by |-> user]
\* Variant of X.delete that the properties below must tell from the code's:
\* the UPDATE of the status is missing.
DeleteWithoutUpdate(recs, audit, t, i, user, fail) ==
    IF fail = "delete" THEN [records |-> recs, audit |-> audit, result |-> "raise"]
    ELSE IF fail = "norow" \/ recs[t][i] = "absent"
         THEN [records |-> [recs EXCEPT ![t][i] = "absent"], audit |-> audit,
               result |-> "False"]
    ELSE [records |-> recs,
          audit |-> Append(audit, AuditEntry(t, i, user)), result |-> "True"]

Delete(recs, audit, t, i, user, fail) ==
    IF fail = "delete" THEN [records |-> recs, audit |-> audit, result |-> "raise"]
    ELSE IF fail = "norow" \/ recs[t][i] = "absent"
         THEN [records |-> [recs EXCEPT ![t][i] = "absent"], audit |-> audit,
               result |-> "False"]
    ELSE [records |-> [recs EXCEPT ![t][i] = "deleted"],
          audit |-> Append(audit, AuditEntry(t, i, user)), result |-> "True"]

(* ---------------------------------------------------------------------- *)
(* Detection                                                               *)
(* ---------------------------------------------------------------------- *)

\* the pairs the nested loops visit: (list[i], list[j]) for i < j, in loop order
RECURSIVE LoopPairs(_, _, _)
LoopPairs(list, i, j) ==
    IF i >= Len(list) THEN <<>>
    ELSE IF j > Len(list) THEN LoopPairs(list, i + 1, i + 2)
    ELSE <<(<<list[i], list[j]>>)>> \o LoopPairs(list, i, j + 1)

\* Variant of the loop body that the properties below must tell from the
\* code's: duplicate.save() is missing.
DetectBodyWithoutSave(t, th, p, st, fail) ==
    IF Similarity(t, p[1], p[2]) >= th
    THEN IF fail THEN [st EXCEPT !.raised = TRUE]
         ELSE IF ~DuplicateExists(st.rows, t, p[1], p[2])
              THEN [st EXCEPT !.found = Append(st.found, st.nextId)]
              ELSE st
    ELSE st

\* Variant of the loop body that the properties below must tell from the
\* code's: duplicates.append(duplicate) is missing.
DetectBodyWithoutAppend(t, th, p, st, fail) ==
    IF Similarity(t, p[1], p[2]) >= th
    THEN IF fail THEN [st EXCEPT !.raised = TRUE]
         ELSE IF ~DuplicateExists(st.rows, t, p[1], p[2])
              THEN [st EXCEPT
                      !.rows = SaveInsert(st.rows, st.nextId,
                                          PotentialDuplicate(t, p[1], p[2],
                                                             Similarity(t, p[1], p[2]))),
                      !.nextId = st.nextId + 1]
              ELSE st
    ELSE st

\* body of the inner loop for one pair; st = [rows, nextId, found, raised];
\* fail: the storage call of this iteration (_duplicate_exists or save) raises
DetectBody(t, th, p, st, fail) ==
    LET similarity_score == Similarity(t, p[1], p[2]) IN
    IF similarity_score >= th
    THEN IF fail THEN [st EXCEPT !.raised = TRUE]
         ELSE IF ~DuplicateExists(st.rows, t, p[1], p[2])
              THEN [st EXCEPT
                      !.rows = SaveInsert(st.rows, st.nextId,
                                          PotentialDuplicate(t, p[1], p[2], similarity_score)),
                      !.nextId = st.nextId + 1,
                      !.found = Append(st.found, st.nextId)]
              ELSE st
    ELSE st

\* detect_client_duplicates / detect_product_duplicates / detect_supplier_duplicates
\* from pair k on; failAt = 0: no storage call raises
RECURSIVE DetectLoop(_, _, _, _, _, _)
DetectLoop(t, th, pairs, k, failAt, st) ==
    IF k > Len(pairs) \/ st.raised THEN st
    ELSE DetectLoop(t, th, pairs, k + 1, failAt,
                    DetectBody(t, th, pairs[k], st, k = failAt))

(* ---------------------------------------------------------------------- *)
(* Initial state: the tables as _initialize_database creates them, the     *)
(* entity rows registered and active, a user logged in                     *)
(* ---------------------------------------------------------------------- *)
Idle == [pc |-> "idle"]

Init ==
    /\ records = [t \in Tables |-> [i \in Ids |-> "active"]]
    /\ score \in Datasets
    /\ current_username \in Users
    /\ potential_duplicates = {}
    /\ nextId = 1
    /\ audit_trail = <<>>
    /\ now = 1
    /\ views = {}
    /\ ret = [op |-> "init"]
    /\ resolved = {}
    /\ runs = [p \in Runners |-> Idle]

(* ---------------------------------------------------------------------- *)
(* Operations, one call each (single-threaded request/response)            *)
(* ---------------------------------------------------------------------- *)

\* detect_client_duplicates(threshold) and its two siblings
Detect(t, th, list, failAt) ==
    LET st == DetectLoop(t, th, LoopPairs(list, 1, 2), 1, failAt,
                         [rows |-> potential_duplicates, nextId |-> nextId,
                          found |-> <<>>, raised |-> FALSE])
    IN /\ st.nextId <= MaxRows + 1
       /\ potential_duplicates' = st.rows
       /\ nextId' = st.nextId
       /\ ret' = [op |-> "detect", table |-> t, threshold |-> th,
                  raised |-> st.raised, result |-> st.found]
       /\ UNCHANGED <<records, score, current_username, audit_trail, now, views,
                      resolved, runs>>

\* run_all_duplicate_detection(threshold): the three detect_* functions one after
\* the other, clients, products, suppliers, and the length of what each returned.
\* There is no try/except around the calls: an exception of one of them leaves
\* the function at once.  lists: what get_all returns for each table; failTable,
\* failAt: the storage call that raises (failAt = 0: none)
DetectAll(th, lists, failTable, failAt) ==
    LET Run(t, st) ==
            IF st.raised THEN st
            ELSE DetectLoop(t, th, LoopPairs(lists[t], 1, 2), 1,
                            IF t = failTable THEN failAt ELSE 0,
                            [st EXCEPT !.found = <<>>])
        client_duplicates == Run("clients", [rows |-> potential_duplicates,
                                             nextId |-> nextId,
                                             found |-> <<>>, raised |-> FALSE])
        product_duplicates == Run("products", client_duplicates)
        supplier_duplicates == Run("suppliers", product_duplicates)
        results == [clients |-> Len(client_duplicates.found),
                    products |-> Len(product_duplicates.found),
                    suppliers |-> Len(supplier_duplicates.found)]
    IN /\ supplier_duplicates.nextId <= MaxRows + 1
       /\ potential_duplicates' = supplier_duplicates.rows
       /\ nextId' = supplier_duplicates.nextId
       /\ ret' = [op |-> "detect_all", threshold |-> th,
                  raised |-> supplier_duplicates.raised,
                  failed |-> IF supplier_duplicates.raised THEN failTable ELSE None,
                  result |-> IF supplier_duplicates.raised THEN None ELSE results]
       /\ UNCHANGED <<records, score, current_username, audit_trail, now, views,
                      resolved, runs>>

\* Variant of GetPendingLists that the properties below must tell from the
\* code's: ORDER BY similarity_score without DESC.
GetPendingListsAscending(tf) ==
    {list \in [1..Cardinality(PendingRows(tf)) -> PendingRows(tf)] :
        \A i, j \in 1..Cardinality(PendingRows(tf)) :
            i < j => /\ list[i] # list[j]
                     /\ list[i].similarity_score <= list[j].similarity_score}

\* the lists get_pending(table_name) can return: the rows it selects, ORDER BY
\* similarity_score DESC, rows of equal score in any order
GetPendingLists(tf) ==
    {list \in [1..Cardinality(PendingRows(tf)) -> PendingRows(tf)] :
        \A i, j \in 1..Cardinality(PendingRows(tf)) :
            i < j => /\ list[i] # list[j]
                     /\ list[i].similarity_score >= list[j].similarity_score}

\* show_duplicate_review: PotentialDuplicate.get_pending(table_name); the page
\* keeps the objects it got
GetPending(tf) ==
    \E pending_duplicates \in GetPendingLists(tf) :
        /\ views' = views \cup {View(pending_duplicates[i]) :
                                   i \in 1..Len(pending_duplicates)}
        /\ ret' = [op |-> "get_pending",
                   result |-> [i \in 1..Len(pending_duplicates) |->
                                  pending_duplicates[i].id]]
    /\ UNCHANGED <<records, score, current_username, potential_duplicates, nextId,
                   audit_trail, now, resolved, runs>>

\* get_duplicate_details(duplicate): the two records of a candidate
GetDuplicateDetails(duplicate) ==
    <<GetById(duplicate.table_name, duplicate.record_id_1),
      GetById(duplicate.table_name, duplicate.record_id_2)>>

\* show_duplicate_comparison(duplicate) up to its buttons: an error message
\* if a record is missing, else both records side by side and the buttons to
\* keep record 1, keep record 2, or dismiss
ShowDuplicateComparison(duplicate) ==
    LET details == GetDuplicateDetails(duplicate) IN
    /\ ret' = [op |-> "details", record1 |-> details[1], record2 |-> details[2],
               offered |-> details[1] # None /\ details[2] # None]
    /\ UNCHANGED <<records, score, current_username, potential_duplicates, nextId,
                   audit_trail, now, views, resolved, runs>>

\* the (table, pair) of the stored row that an UPDATE ... WHERE id = ? resolves
ResolvedBy(id) ==
    {<<r.table_name, {r.record_id_1, r.record_id_2}>> :
        r \in {x \in potential_duplicates : x.id = id}}

\* Variant of merge_records that the properties below must tell from the
\* code's: the record deleted is the one to keep.
MergeDeletesKept(duplicate, keep_record_id, user, fail) ==
    LET del == Delete(records, audit_trail, duplicate.table_name, keep_record_id, user, fail)
        call == [op |-> "merge", delete |-> del.result, result |-> FALSE]
    IN /\ Len(del.audit) <= MaxAudit
       /\ Cardinality({x \in Tables \X Ids : del.records[x[1]][x[2]] = "absent"}) <= MaxGone
       /\ records' = del.records
       /\ audit_trail' = del.audit
       /\ IF del.result = "raise" \/ fail = "save"
          THEN /\ ret' = call
               /\ UNCHANGED <<potential_duplicates, now, resolved>>
          ELSE /\ now <= MaxClock
               /\ potential_duplicates' =
                      SaveUpdate(potential_duplicates, duplicate.id, "merged", user, now)
               /\ now' = now + 1
               /\ resolved' = resolved \cup ResolvedBy(duplicate.id)
               /\ ret' = [call EXCEPT !.result = TRUE]
       /\ UNCHANGED <<score, current_username, nextId, views, runs>>

\* merge_records(duplicate, keep_record_id, user); fail: the storage call that
\* raises, in X.delete ("delete") or duplicate.save() ("save"), or the row to
\* delete being gone ("norow")
MergeFailures == {"none", "delete", "norow", "save"}
Merge(duplicate, keep_record_id, user, fail) ==
    LET delete_id == IF keep_record_id = duplicate.record_id_1
                     THEN duplicate.record_id_2 ELSE duplicate.record_id_1
        del == Delete(records, audit_trail, duplicate.table_name, delete_id, user, fail)
        call == [op |-> "merge", delete |-> del.result, result |-> FALSE]
    IN /\ Len(del.audit) <= MaxAudit
       /\ Cardinality({x \in Tables \X Ids : del.records[x[1]][x[2]] = "absent"}) <= MaxGone
       /\ records' = del.records
       /\ audit_trail' = del.audit
       /\ IF del.result = "raise" \/ fail = "save"
          THEN /\ ret' = call
               /\ UNCHANGED <<potential_duplicates, now, resolved>>
          ELSE /\ now <= MaxClock
               /\ potential_duplicates' =
                      SaveUpdate(potential_duplicates, duplicate.id, "merged", user, now)
               /\ now' = now + 1
               /\ resolved' = resolved \cup ResolvedBy(duplicate.id)
               /\ ret' = [call EXCEPT !.result = TRUE]
       /\ UNCHANGED <<score, current_username, nextId, views, runs>>

\* mark_as_not_duplicate(duplicate, user); fail: duplicate.save() raises
MarkAsNotDuplicate(duplicate, user, fail) ==
    LET call == [op |-> "dismiss", result |-> FALSE] IN
    /\ IF fail
       THEN /\ ret' = call
            /\ UNCHANGED <<potential_duplicates, now, resolved>>
       ELSE /\ now <= MaxClock
            /\ potential_duplicates' =
                   SaveUpdate(potential_duplicates, duplicate.id, "not_duplicate", user, now)
            /\ now' = now + 1
            /\ resolved' = resolved \cup ResolvedBy(duplicate.id)
            /\ ret' = [call EXCEPT !.result = TRUE]
    /\ UNCHANGED <<records, score, current_username, nextId, audit_trail, views, runs>>

\* Variant of the cleanup that the properties below must tell from the code's:
\* the DELETE has no WHERE clause.
CleanupEveryRow ==
    LET done == {r \in potential_duplicates : r.status \in {"merged", "not_duplicate"}} IN
    /\ Cardinality(done) > 0
    /\ potential_duplicates' = {}
    /\ ret' = [op |-> "cleanup"]
    /\ UNCHANGED <<records, score, current_username, nextId, audit_trail, now, views,
                   resolved, runs>>

\* show_duplicate_reports: the cleanup button, shown when resolved rows exist
Cleanup ==
    LET done == {r \in potential_duplicates : r.status \in {"merged", "not_duplicate"}} IN
    /\ Cardinality(done) > 0
    /\ potential_duplicates' = potential_duplicates \ done
    /\ ret' = [op |-> "cleanup"]
    /\ UNCHANGED <<records, score, current_username, nextId, audit_trail, now, views,
                   resolved, runs>>

DetectAny ==
    \E t \in Tables, th \in Thresholds : \E list \in Orderings(t, ActiveIds(t)) :
        \E failAt \in 0..Len(LoopPairs(list, 1, 2)) :
            /\ failAt > 0 => Similarity(t, LoopPairs(list, 1, 2)[failAt][1],
                                           LoopPairs(list, 1, 2)[failAt][2]) >= th
            /\ Detect(t, th, list, failAt)
GetPendingAny == \E tf \in Tables \cup {None} : GetPending(tf)
MergeAny ==
    \E d \in views, keep \in Ids, fail \in MergeFailures :
        Merge(d, keep, current_username, fail)
DismissAny ==
    \E d \in views, fail \in BOOLEAN : MarkAsNotDuplicate(d, current_username, fail)
ShowDuplicateComparisonAny == \E d \in views : ShowDuplicateComparison(d)

Next ==
    DetectAny \/ GetPendingAny \/ ShowDuplicateComparisonAny \/ MergeAny \/ DismissAny
        \/ Cleanup

Spec == Init /\ [][Next]_vars

(* ---------------------------------------------------------------------- *)
(* Detection of all tables in one call, over rows with like pairs in two   *)
(* tables.                                                                 *)
(* ---------------------------------------------------------------------- *)
InitAll ==
    /\ records = [t \in Tables |-> [i \in Ids |-> "active"]]
    /\ score = TwoTablesData
    /\ current_username \in Users
    /\ potential_duplicates = {}
    /\ nextId = 1
    /\ audit_trail = <<>>
    /\ now = 1
    /\ views = {}
    /\ ret = [op |-> "init"]
    /\ resolved = {}
    /\ runs = [p \in Runners |-> Idle]

DetectAllAny ==
    \E th \in Thresholds :
        \E clients \in Orderings("clients", ActiveIds("clients")),
           products \in Orderings("products", ActiveIds("products")),
           suppliers \in Orderings("suppliers", ActiveIds("suppliers")) :
            LET lists == [clients |-> clients, products |-> products,
                          suppliers |-> suppliers]
            IN \E failTable \in Tables :
                   \E failAt \in 0..Len(LoopPairs(lists[failTable], 1, 2)) :
                       /\ failAt > 0 =>
                              Similarity(failTable,
                                         LoopPairs(lists[failTable], 1, 2)[failAt][1],
                                         LoopPairs(lists[failTable], 1, 2)[failAt][2]) >= th
                       /\ DetectAll(th, lists, failTable, failAt)

\* the merge buttons of show_duplicate_comparison: keep record 1 or record 2 of
\* the candidate; in this specification no storage call of a merge raises
MergeEitherAny ==
    \E d \in views, keep \in Ids :
        /\ keep \in {d.record_id_1, d.record_id_2}
        /\ Merge(d, keep, current_username, "none")

NextAll ==
    DetectAllAny \/ DetectAny \/ GetPendingAny \/ MergeEitherAny \/ DismissAny \/ Cleanup

SpecAll == InitAll /\ [][NextAll]_vars

(* ---------------------------------------------------------------------- *)
(* Detection with any threshold a caller can pass: threshold is a float    *)
(* that no function checks, so values below 0 and above 1 are passed on to *)
(* the comparison similarity_score >= threshold like any other.  In this   *)
(* specification no storage call raises.                                   *)
(* ---------------------------------------------------------------------- *)
CallerThresholds == Thresholds \cup {-1000, 15000}    \* and -0.1 and 1.5

DetectRangeAny ==
    \E t \in Tables, th \in CallerThresholds : \E list \in Orderings(t, ActiveIds(t)) :
        Detect(t, th, list, 0)

DetectAllRangeAny ==
    \E th \in CallerThresholds :
        \E clients \in Orderings("clients", ActiveIds("clients")),
           products \in Orderings("products", ActiveIds("products")),
           suppliers \in Orderings("suppliers", ActiveIds("suppliers")) :
            DetectAll(th, [clients |-> clients, products |-> products,
                           suppliers |-> suppliers], "clients", 0)

NextRange ==
    DetectRangeAny \/ DetectAllRangeAny \/ GetPendingAny \/ MergeEitherAny \/ Cleanup

SpecRange == InitAll /\ [][NextRange]_vars

(* ---------------------------------------------------------------------- *)
(* Two reviewers.  Every browser session has a user of its own             *)
(* (st.session_state.user); the calls of the sessions alternate.           *)
(* ---------------------------------------------------------------------- *)
Reviewers == {"alice", "bob"}

InitUsers ==
    /\ records = [t \in Tables |-> [i \in Ids |-> "active"]]
    /\ score = ClientsData
    /\ current_username \in Reviewers
    /\ potential_duplicates = {}
    /\ nextId = 1
    /\ audit_trail = <<>>
    /\ now = 1
    /\ views = {}
    /\ ret = [op |-> "init"]
    /\ resolved = {}
    /\ runs = [p \in Runners |-> Idle]

\* login_user(user), or the session of user is the one whose call comes next
LoginUser(user) ==
    /\ user # current_username
    /\ current_username' = user
    /\ ret' = [op |-> "login"]
    /\ UNCHANGED <<records, score, potential_duplicates, nextId, audit_trail, now,
                   views, resolved, runs>>

LoginUserAny == \E user \in Reviewers : LoginUser(user)

NextUsers ==
    LoginUserAny \/ DetectAny \/ GetPendingAny \/ MergeEitherAny \/ DismissAny \/ Cleanup

SpecUsers == InitUsers /\ [][NextUsers]_vars

(* ---------------------------------------------------------------------- *)
(* Interleaved detection.  Every Streamlit session runs its script in a    *)
(* thread of its own and every storage call opens a connection of its own  *)
(* (get_connection), so two runs of a detect_* function interleave between *)
(* their storage calls: _duplicate_exists and save are separate steps.     *)
(* ---------------------------------------------------------------------- *)

\* call p enters detect_*: get_all(status='active') and the start of the loops
RunStart(p, t, th, list) ==
    /\ runs[p].pc = "idle"
    /\ runs' = [runs EXCEPT ![p] = [pc |-> "loop", table |-> t, threshold |-> th,
                                    pairs |-> LoopPairs(list, 1, 2), k |-> 1,
                                    found |-> <<>>]]
    /\ UNCHANGED <<records, score, current_username, potential_duplicates, nextId,
                   audit_trail, now, views, ret, resolved>>

\* one iteration up to its decision: the score, the threshold test, _duplicate_exists
RunCheck(p) ==
    LET r == runs[p] IN
    /\ r.pc = "loop"
    /\ r.k <= Len(r.pairs)
    /\ LET pr == r.pairs[r.k] IN
       IF /\ Similarity(r.table, pr[1], pr[2]) >= r.threshold
          /\ ~DuplicateExists(potential_duplicates, r.table, pr[1], pr[2])
       THEN runs' = [runs EXCEPT ![p].pc = "save"]
       ELSE runs' = [runs EXCEPT ![p].k = r.k + 1]
    /\ UNCHANGED <<records, score, current_username, potential_duplicates, nextId,
                   audit_trail, now, views, ret, resolved>>

\* the rest of the iteration: duplicate.save() and duplicates.append(duplicate)
RunSave(p) ==
    LET r == runs[p]
        pr == r.pairs[r.k]
    IN /\ r.pc = "save"
       /\ nextId <= MaxRows
       /\ potential_duplicates' =
              SaveInsert(potential_duplicates, nextId,
                         PotentialDuplicate(r.table, pr[1], pr[2],
                                            Similarity(r.table, pr[1], pr[2])))
       /\ nextId' = nextId + 1
       /\ runs' = [runs EXCEPT ![p].pc = "loop", ![p].k = r.k + 1,
                               ![p].found = Append(r.found, nextId)]
       /\ UNCHANGED <<records, score, current_username, audit_trail, now, views, ret,
                      resolved>>

\* return duplicates
RunReturn(p) ==
    LET r == runs[p] IN
    /\ r.pc = "loop"
    /\ r.k > Len(r.pairs)
    /\ ret' = [op |-> "detect", table |-> r.table, threshold |-> r.threshold,
               raised |-> FALSE, result |-> r.found]
    /\ runs' = [runs EXCEPT ![p] = [pc |-> "returned"]]
    /\ UNCHANGED <<records, score, current_username, potential_duplicates, nextId,
                   audit_trail, now, views, resolved>>

RunStartAny ==
    \E p \in Runners, t \in Tables, th \in Thresholds :
        \E list \in Orderings(t, ActiveIds(t)) : RunStart(p, t, th, list)
RunCheckAny == \E p \in Runners : RunCheck(p)
RunSaveAny == \E p \in Runners : RunSave(p)
RunReturnAny == \E p \in Runners : RunReturn(p)

NextConc == RunStartAny \/ RunCheckAny \/ RunSaveAny \/ RunReturnAny

SpecConc == Init /\ [][NextConc]_vars

(* ---------------------------------------------------------------------- *)
(* X.delete step by step, with the connections it opens.  get_connection   *)
(* opens a new sqlite3 connection each time (default journal mode, default *)
(* busy timeout).  A connection that writes takes the write lock of the    *)
(* database file and holds it until it commits or rolls back; a write on   *)
(* another connection waits for the lock and raises "database is locked"   *)
(* when the timeout ends.  X.delete runs its UPDATE on connection 1 and,   *)
(* before committing it, calls _log_audit_trail_static, which opens        *)
(* connection 2 for its INSERT.                                            *)
(* ---------------------------------------------------------------------- *)

\* the connections that hold the write lock: connection 1 of a call that has
\* run its UPDATE and not yet committed or rolled back
WriteLockHolders == {<<p, 1>> : p \in {q \in Runners : runs[q].pc = "updated"}}

\* the tables with the rows 1..MaxRec - 1 registered and active
InitLock ==
    /\ records = [t \in Tables |->
                     [i \in Ids |-> IF i < MaxRec THEN "active" ELSE "absent"]]
    /\ score \in Datasets
    /\ current_username \in Users
    /\ potential_duplicates = {}
    /\ nextId = 1
    /\ audit_trail = <<>>
    /\ now = 1
    /\ views = {}
    /\ ret = [op |-> "init"]
    /\ resolved = {}
    /\ runs = [p \in Runners |-> Idle]

\* call p enters X.delete(id, user): client = X.get_by_id(id)
DeleteGetById(p, t, i) ==
    /\ runs[p].pc = "idle"
    /\ runs' = [runs EXCEPT ![p] = [pc |-> "got", table |-> t, id |-> i,
                                    found |-> GetById(t, i) # None]]
    /\ UNCHANGED <<records, score, current_username, potential_duplicates, nextId,
                   audit_trail, now, views, ret, resolved>>

\* if client: the UPDATE ... SET status='deleted' on connection 1, which takes
\* the write lock; else: return False
DeleteUpdateStatus(p) ==
    LET r == runs[p] IN
    /\ r.pc = "got"
    /\ IF ~r.found
       THEN /\ ret' = [op |-> "delete", result |-> "False"]
            /\ runs' = [runs EXCEPT ![p] = [pc |-> "returned"]]
       ELSE IF WriteLockHolders \ {<<p, 1>>} # {}
       THEN /\ ret' = [op |-> "delete", result |-> "raise"]
            /\ runs' = [runs EXCEPT ![p] = [pc |-> "returned"]]
       ELSE /\ ret' = ret
            /\ runs' = [runs EXCEPT ![p].pc = "updated"]
    /\ UNCHANGED <<records, score, current_username, potential_duplicates, nextId,
                   audit_trail, now, views, resolved>>

\* _log_audit_trail_static on connection 2: INSERT INTO audit_trail and commit;
\* then conn.commit() of connection 1 and return True.  When the INSERT raises,
\* the exception leaves the with block of connection 1, which rolls the UPDATE
\* back, and X.delete itself.
DeleteLogAuditTrail(p) ==
    LET r == runs[p] IN
    /\ r.pc = "updated"
    /\ IF WriteLockHolders \ {<<p, 2>>} # {}
       THEN /\ ret' = [op |-> "delete", result |-> "raise"]
            /\ UNCHANGED <<records, audit_trail>>
       ELSE /\ Len(audit_trail) < MaxAudit
            /\ audit_trail' = Append(audit_trail, AuditEntry(r.table, r.id, current_username))
            /\ records' = [records EXCEPT ![r.table][r.id] = "deleted"]
            /\ ret' = [op |-> "delete", result |-> "True"]
    /\ runs' = [runs EXCEPT ![p] = [pc |-> "returned"]]
    /\ UNCHANGED <<score, current_username, potential_duplicates, nextId, now, views,
                   resolved>>

DeleteGetByIdAny == \E p \in Runners, t \in Tables, i \in Ids : DeleteGetById(p, t, i)
DeleteUpdateStatusAny == \E p \in Runners : DeleteUpdateStatus(p)
DeleteLogAuditTrailAny == \E p \in Runners : DeleteLogAuditTrail(p)

NextLock == DeleteGetByIdAny \/ DeleteUpdateStatusAny \/ DeleteLogAuditTrailAny

SpecLock == InitLock /\ [][NextLock]_vars

(* ---------------------------------------------------------------------- *)
(* The scorers on their own: one call of _calculate_*_similarity on two    *)
(* records of a table.                                                     *)
(* ---------------------------------------------------------------------- *)
Names == {NoText, <<"a", "b", "a">>, <<"b", "c", "a">>, <<"A", "b", "a", " ">>}
ClientNames == Names \cup {<<"a", "b", "c", "a", "b">>, <<"a", "b", "c", "a", "b", "c">>}
Documents == {NoText, <<"1", "2">>, <<"1", "-", "2">>, <<"1", "3">>}
Emails == {NoText, <<"a", "b">>}
Phones == {NoText, <<"1", "-", "2">>, <<"1", "3">>}
Codes == {NoText, <<"p", "1">>, <<"P", "1">>, <<"p", "2">>}

ClientInputs ==
    [name : ClientNames, document_number : Documents, email : Emails, phone : Phones]
ProductInputs == [code : Codes, name : Names, description : Emails]
SupplierInputs ==
    [name : Names, document_number : Documents, email : Emails, contact_person : Emails]
RecordInputs(t) ==
    IF t = "clients" THEN ClientInputs
    ELSE IF t = "products" THEN ProductInputs ELSE SupplierInputs

InitScore ==
    /\ records = [t \in Tables |-> [i \in Ids |-> "active"]]
    /\ score \in Datasets
    /\ current_username \in Users
    /\ potential_duplicates = {}
    /\ nextId = 1
    /\ audit_trail = <<>>
    /\ now = 1
    /\ views = {}
    /\ \E t \in Tables : \E record1, record2 \in RecordInputs(t) :
          ret = [op |-> "args", table |-> t, record1 |-> record1, record2 |-> record2]
    /\ resolved = {}
    /\ runs = [p \in Runners |-> Idle]

\* the call _calculate_*_similarity(record1, record2)
Score ==
    /\ ret.op = "args"
    /\ ret' = [op |-> "score", table |-> ret.table,
               record1 |-> ret.record1, record2 |-> ret.record2,
               result |-> CalculateRecordSimilarity(ret.table, ret.record1, ret.record2)]
    /\ UNCHANGED <<records, score, current_username, potential_duplicates, nextId,
                   audit_trail, now, views, resolved, runs>>

NextScore == Score

SpecScore == InitScore /\ [][NextScore]_vars

(* ---------------------------------------------------------------------- *)
(* Properties                                                              *)
(* ---------------------------------------------------------------------- *)

\* the stored rows of table t for the unordered pair p
RowsOf(rows, t, p) ==
    {r \in rows : r.table_name = t /\ {r.record_id_1, r.record_id_2} = p}
PairsOfIds == {q \in SUBSET Ids : Cardinality(q) = 2}

\* C1: when detection runs are not interleaved (every call runs to its end
\* before the next starts), no two stored candidate rows have the same table
\* and the same unordered pair of record ids, whatever the sequence of
\* detect runs, resolutions and thresholds.
C1_NoDuplicatePair ==
    \A r1, r2 \in potential_duplicates :
        (/\ r1.table_name = r2.table_name
         /\ {r1.record_id_1, r1.record_id_2} = {r2.record_id_1, r2.record_id_2})
        => r1 = r2

\* C1 witness: a detect run has met, in the order (a, b), a pair at or above its
\* threshold that is stored as (b, a), and has stored nothing for it.
C1_Witness ==
    /\ ret.op = "detect" /\ ~ret.raised /\ ret.result = <<>>
    /\ \E r \in potential_duplicates :
          /\ r.table_name = ret.table
          /\ r.similarity_score >= ret.threshold
          /\ r.record_id_1 > r.record_id_2
          /\ records[r.table_name][r.record_id_1] = "active"
          /\ records[r.table_name][r.record_id_2] = "active"

\* C2: when two detect runs on the same table interleave, the store itself
\* keeps a second row for the same unordered pair from being inserted (the
\* losing insert being reported as a conflict): at most one row per table and
\* unordered pair is ever stored.
C2_StoreKeepsPairsUnique ==
    \A t \in Tables, p \in PairsOfIds :
        Cardinality(RowsOf(potential_duplicates, t, p)) <= 1

ResolvedStatuses == {"merged", "not_duplicate"}

\* C3: a stored candidate whose status is merged or not_duplicate keeps its
\* status, reviewed_by and reviewed_at through every later call, calls made on
\* a copy of the candidate loaded while it was pending included.
C3_TerminalRowsKeepResolution ==
    [][\A r \in potential_duplicates :
          r.status \in ResolvedStatuses =>
              \A q \in potential_duplicates' :
                  q.id = r.id => /\ q.status = r.status
                                 /\ q.reviewed_by = r.reviewed_by
                                 /\ q.reviewed_at = r.reviewed_at]_vars

\* C4: a merge whose keep_record_id is neither record id of the candidate is
\* rejected: it does not report success and leaves the entity rows, the audit
\* trail and the candidate rows as they were.
C4_InvalidKeepRejected ==
    [][ret'.op = "merge" =>
          \A d \in views, keep \in Ids, fail \in MergeFailures :
              (/\ keep \notin {d.record_id_1, d.record_id_2}
               /\ Merge(d, keep, current_username, fail))
              => /\ ret'.result = FALSE
                 /\ UNCHANGED <<records, audit_trail, potential_duplicates>>]_vars

\* C5: when the soft-delete of a merge does not succeed (it raises, or it
\* returns False because the row no longer exists), a pending candidate stays
\* pending and the merge reports failure.
C5_FailedDeleteKeepsPending ==
    [][(ret'.op = "merge" /\ ret'.delete # "True") =>
          \A d \in views, keep \in Ids, fail \in MergeFailures :
              Merge(d, keep, current_username, fail)
              => /\ ret'.result = FALSE
                 /\ \A r \in potential_duplicates :
                       (r.id = d.id /\ r.status = "pending") => r \in potential_duplicates']_vars

C7_MergeAllOrNothing ==
    [][ret'.op = "merge" =>
          \A d \in views, keep \in Ids, fail \in MergeFailures :
              Merge(d, keep, current_username, fail) =>
                  \A i \in Ids :
                      (/\ records[d.table_name][i] # "deleted"
                       /\ records'[d.table_name][i] = "deleted")
                      => \A r \in potential_duplicates' : r.id = d.id => r.status # "pending"]_vars

\* C8: a detect run that directly follows a returned detect run on the same
\* table at the same threshold stores no row and finds nothing.
C8_SecondRunCreatesNothing ==
    [][(/\ ret.op = "detect" /\ ~ret.raised
        /\ ret'.op = "detect"
        /\ ret'.table = ret.table /\ ret'.threshold = ret.threshold)
       => /\ potential_duplicates' = potential_duplicates
          /\ ret'.result = <<>>]_vars

\* C8 witness: nothing but detect runs has touched the store, a first run has
\* stored a pair, and the last call is a detect run on that table at a
\* threshold the pair reaches that returned the empty list.
C8_Witness ==
    /\ ret.op = "detect" /\ ~ret.raised /\ ret.result = <<>>
    /\ views = {} /\ now = 1 /\ nextId = 2
    /\ \E r \in potential_duplicates :
          /\ r.table_name = ret.table
          /\ r.status = "pending"
          /\ r.similarity_score >= ret.threshold

\* the ids of the stored rows of table t for the unordered pair p
RowIdsOf(rows, t, p) == {r.id : r \in RowsOf(rows, t, p)}

\* C9 (as stated): once a candidate of a pair has been stored and resolved, no
\* later step stores a new row for that pair while both records are active.
C9_ResolvedPairNeverRecreated ==
    [][\A x \in resolved :
          (\A i \in x[2] : records[x[1]][i] = "active")
          => RowIdsOf(potential_duplicates', x[1], x[2])
                 \subseteq RowIdsOf(potential_duplicates, x[1], x[2])]_vars

\* C9 (amended): while a resolved candidate of a pair is stored, no step stores
\* a new row for that pair, in either order, at any threshold.
C9_StoredResolvedPairNotRecreated ==
    [][\A r \in potential_duplicates :
          r.status \in ResolvedStatuses
          => RowIdsOf(potential_duplicates', r.table_name, {r.record_id_1, r.record_id_2})
                 \subseteq RowIdsOf(potential_duplicates, r.table_name,
                                    {r.record_id_1, r.record_id_2})]_vars

\* C9 witness: a detect run has returned with a dismissed candidate stored in
\* its table whose score reaches the threshold and whose records are active.
C9_Witness ==
    /\ ret.op = "detect" /\ ~ret.raised
    /\ \E r \in potential_duplicates :
          /\ r.table_name = ret.table
          /\ r.status = "not_duplicate"
          /\ r.similarity_score >= ret.threshold
          /\ records[r.table_name][r.record_id_1] = "active"
          /\ records[r.table_name][r.record_id_2] = "active"

\* C10: a detect run that returns (no storage call raises), at a threshold strictly below the score of
\* a pair of active records that has no stored candidate, stores exactly one
\* row for that pair: pending, with that score.
C10_LowerThresholdCreatesOneRow ==
    [][(ret'.op = "detect" /\ ~ret'.raised) =>
          \A p \in PairsOfIds :
              (/\ p \subseteq ActiveIds(ret'.table)
               /\ \A a, b \in p : a # b => Similarity(ret'.table, a, b) > ret'.threshold
               /\ RowsOf(potential_duplicates, ret'.table, p) = {})
              => /\ Cardinality(RowsOf(potential_duplicates', ret'.table, p)) = 1
                 /\ \A r \in RowsOf(potential_duplicates', ret'.table, p) :
                       /\ r.status = "pending"
                       /\ r.similarity_score =
                              Similarity(ret'.table, r.record_id_1, r.record_id_2)]_vars

\* C10 witness: a run at the threshold 0.1 has stored the one row of a pair of
\* score 0.15, a pair that the run which stored the pair of score 0.4 left out.
C10_Witness ==
    /\ ret.op = "detect" /\ ~ret.raised /\ ret.threshold = 1000 /\ Len(ret.result) = 1
    /\ \E r, q \in potential_duplicates :
          /\ r.id = ret.result[1] /\ r.similarity_score = 1500
          /\ q.table_name = r.table_name /\ q.similarity_score = 4000 /\ q.id < r.id

\* C14: two clients with the same document number after normalization, a name
\* similarity of about 0.9 and no email or phone on either side score at least
\* 0.8, the default threshold.
C14_SameDocumentLikeNameReachesDefault ==
    (/\ ret.op = "score" /\ ret.table = "clients"
     /\ Len(NormalizeDocument(ret.record1.document_number)) > 0
     /\ NormalizeDocument(ret.record1.document_number)
            = NormalizeDocument(ret.record2.document_number)
     /\ CalculateSimilarity(ret.record1.name, ret.record2.name) \in 85..95
     /\ ret.record1.email = NoText /\ ret.record2.email = NoText
     /\ ret.record1.phone = NoText /\ ret.record2.phone = NoText)
    => ret.result >= 8000

\* the weighted fields of a table, and the value of a field as the scorer
\* compares it
WeightedFields(t) ==
    IF t = "clients"
    THEN {<<"name", 40>>, <<"document_number", 30>>, <<"email", 20>>, <<"phone", 10>>}
    ELSE IF t = "products"
    THEN {<<"code", 40>>, <<"name", 40>>, <<"description", 20>>}
    ELSE {<<"name", 40>>, <<"document_number", 30>>, <<"email", 20>>,
          <<"contact_person", 10>>}
Compared(f, record) ==
    IF f = "document_number" THEN NormalizeDocument(record[f]) ELSE record[f]
\* the weights of the fields present on both records
RECURSIVE SumOfWeights(_)
SumOfWeights(fields) ==
    IF fields = {} THEN 0
    ELSE LET f == CHOOSE x \in fields : TRUE IN f[2] + SumOfWeights(fields \ {f})
ComparableFields(t, record1, record2) ==
    {f \in WeightedFields(t) :
        Len(Compared(f[1], record1)) > 0 /\ Len(Compared(f[1], record2)) > 0}

\* C15: a scorer returns the weighted mean over the fields present on both
\* records, sum(w_f * sim_f) / sum(w_f), and 0.0 when no field is comparable.
C15_WeightedMeanOfComparableFields ==
    ret.op = "score" =>
        LET fields == ComparableFields(ret.table, ret.record1, ret.record2) IN
        IF fields = {} THEN ret.result = 0
        ELSE ret.result =
                 (100 * Sum(FieldScores(ret.table, ret.record1, ret.record2)))
                     \div SumOfWeights(fields)

\* C16: a record in which every weighted field is present and non-empty
\* scores 1.0 against itself.
C16_SelfScoreIsOne ==
    (/\ ret.op = "score" /\ ret.record1 = ret.record2
     /\ ComparableFields(ret.table, ret.record1, ret.record2) = WeightedFields(ret.table))
    => ret.result = 10000

\* C17: the score of (a, b) equals the score of (b, a), for each scorer.
C17_ScoreSymmetric ==
    ret.op = "score" =>
        ret.result = CalculateRecordSimilarity(ret.table, ret.record2, ret.record1)

(* ---------------------------------------------------------------------- *)
(* Detection of all tables (SpecAll)                                       *)
(* ---------------------------------------------------------------------- *)

\* the pairs of active rows of table t that a run at threshold th must give
\* a candidate: the score reaches th and no row of rows holds the pair
Qualifying(rows, t, th) ==
    {p \in PairsOfIds : /\ p \subseteq ActiveIds(t)
                         /\ \A a, b \in p : a # b => Similarity(t, a, b) >= th
                         /\ RowsOf(rows, t, p) = {}}

\* C11: in run_all_duplicate_detection a failure (a storage call that
\* raises) while one table is detected does not keep the other tables from
\* being detected: their candidates are still created and the call still
\* returns its counts.
C11_FailureInOneTableIsolated ==
    [][(ret'.op = "detect_all" /\ ret'.failed # None) =>
          /\ ~ret'.raised
          /\ \A t \in Tables \ {ret'.failed} :
                 \A p \in Qualifying(potential_duplicates, t, ret'.threshold) :
                     RowsOf(potential_duplicates', t, p) # {}]_vars

\* the rows a call has inserted, and those of them of table t
Inserted == potential_duplicates' \ potential_duplicates
InsertedOf(t) == {r \in Inserted : r.table_name = t}

\* a call that returned has given table t, at threshold th, one pending row for
\* each qualifying pair and no other row
InsertedExactly(t, th) ==
    /\ \A r \in InsertedOf(t) :
           /\ r.status = "pending"
           /\ {r.record_id_1, r.record_id_2} \in Qualifying(potential_duplicates, t, th)
    /\ \A p \in Qualifying(potential_duplicates, t, th) :
           Cardinality(RowsOf(Inserted, t, p)) = 1

\* C13: a detect_* call that returns has inserted a pending row for exactly
\* the pairs of active rows of its table whose score reaches the threshold and
\* that had no row in either order, and returns exactly the rows it inserted;
\* the counts run_all_duplicate_detection returns are the numbers of rows it
\* inserted for each table.
C13_DetectInsertsExactlyQualifying ==
    [][/\ (ret'.op = "detect" /\ ~ret'.raised) =>
             /\ potential_duplicates \subseteq potential_duplicates'
             /\ Inserted = InsertedOf(ret'.table)
             /\ InsertedExactly(ret'.table, ret'.threshold)
             /\ Len(ret'.result) = Cardinality(Inserted)
             /\ {ret'.result[i] : i \in 1..Len(ret'.result)} = {r.id : r \in Inserted}
       /\ (ret'.op = "detect_all" /\ ~ret'.raised) =>
             /\ potential_duplicates \subseteq potential_duplicates'
             /\ \A t \in Tables :
                    /\ InsertedExactly(t, ret'.threshold)
                    /\ ret'.result[t] = Cardinality(InsertedOf(t))]_vars

\* run_all_duplicate_detection has returned one new client candidate and one
\* new product candidate, and both rows are stored
C13_Witness ==
    /\ ret.op = "detect_all" /\ ~ret.raised
    /\ ret.result = [clients |-> 1, products |-> 1, suppliers |-> 0]
    /\ \E r1, r2 \in potential_duplicates :
           /\ r1.table_name = "clients" /\ r1.status = "pending"
           /\ r2.table_name = "products" /\ r2.status = "pending"

\* C30: every row a detection creates has two distinct record ids, both of
\* rows of the table the row names, and _duplicate_exists looks at the rows
\* of that table only: a candidate stored for ids (a, b) of another table
\* does not keep a detection from creating the candidate for (a, b) of its
\* table.
C30_RowsOfOneTableGuardPerTable ==
    [][ret'.op \in {"detect", "detect_all"} =>
          /\ \A r \in Inserted :
                 /\ r.table_name \in Tables
                 /\ r.record_id_1 # r.record_id_2
                 /\ \A i \in {r.record_id_1, r.record_id_2} :
                        i \in Ids /\ records[r.table_name][i] # "absent"
          /\ ~ret'.raised =>
                \A t \in IF ret'.op = "detect" THEN {ret'.table} ELSE Tables :
                    \A p \in Qualifying(potential_duplicates, t, ret'.threshold) :
                        (\E o \in Tables \ {t} : RowsOf(potential_duplicates', o, p) # {})
                        => RowsOf(potential_duplicates', t, p) # {}]_vars

\* a product detection has returned the candidate it created for products
\* (1, 2) while a candidate for clients (1, 2) was stored
C30_Witness ==
    /\ ret.op = "detect" /\ ~ret.raised /\ ret.table = "products"
    /\ Len(ret.result) = 1
    /\ \E r \in RowsOf(potential_duplicates, "products", {1, 2}) :
           /\ r.id = ret.result[1]
           /\ \E o \in RowsOf(potential_duplicates, "clients", {1, 2}) : o.id < r.id

(* ---------------------------------------------------------------------- *)
(* Detection reads active rows only (Spec)                                 *)
(* ---------------------------------------------------------------------- *)

\* C12: a detect_* run compares only the rows that are active when it loads
\* them: no row it inserts references a record that was inactive or deleted
\* at that time.
C12_DetectReferencesActiveOnly ==
    [][ret'.op = "detect" =>
          \A r \in potential_duplicates' \ potential_duplicates :
              /\ records[r.table_name][r.record_id_1] = "active"
              /\ records[r.table_name][r.record_id_2] = "active"]_vars

\* a client detection at threshold 0.3 has returned while client 1 or 2 was
\* deleted and no row held the pair (1, 2), whose score is 0.4: the pair was
\* left out for its deleted record alone
C12_Witness ==
    /\ ret.op = "detect" /\ ~ret.raised
    /\ ret.table = "clients" /\ ret.threshold = 3000
    /\ Similarity("clients", 1, 2) >= 3000 /\ Similarity("clients", 2, 1) >= 3000
    /\ "deleted" \in {records["clients"][1], records["clients"][2]}
    /\ RowsOf(potential_duplicates, "clients", {1, 2}) = {}

(* ---------------------------------------------------------------------- *)
(* Effects of a resolution (Spec)                                          *)
(* ---------------------------------------------------------------------- *)

\* the stored row that the loaded candidate duplicate stands for, if pending
PendingRowOf(duplicate) ==
    {r \in potential_duplicates : r.id = duplicate.id /\ r.status = "pending"}

\* C18: a merge_records call that succeeds (X.delete did its UPDATE, save did
\* not raise) on a pending candidate whose two records are active, keeping
\* one of the two, leaves the other record deleted, the kept record active and
\* every other record as it was, and stores the candidate as merged, reviewed
\* by the user.
C18_MergeDeletesOtherKeepsKept ==
    [][(ret'.op = "merge" /\ ret'.result /\ ret'.delete = "True") =>
          \A duplicate \in views :
              \A keep \in {duplicate.record_id_1, duplicate.record_id_2} :
                  LET t == duplicate.table_name
                      other == IF keep = duplicate.record_id_1
                               THEN duplicate.record_id_2 ELSE duplicate.record_id_1
                  IN (/\ Merge(duplicate, keep, current_username, "none")
                      /\ PendingRowOf(duplicate) # {}
                      /\ records[t][keep] = "active"
                      /\ records[t][other] = "active")
                     => /\ records' = [records EXCEPT ![t][other] = "deleted"]
                        /\ records'[t][keep] = "active"
                        /\ \A r \in PendingRowOf(duplicate) :
                               [r EXCEPT !.status = "merged",
                                         !.reviewed_by = current_username,
                                         !.reviewed_at = now] \in potential_duplicates'
                        /\ \A r \in potential_duplicates' :
                               r.id = duplicate.id => r.status = "merged"]_vars

\* a merge has returned True: its candidate is stored as merged, reviewed by
\* the user, one of its records is deleted and the other is active
C18_Witness ==
    /\ ret.op = "merge" /\ ret.result /\ ret.delete = "True"
    /\ \E r \in potential_duplicates :
           /\ r.status = "merged" /\ r.reviewed_by = current_username
           /\ r.reviewed_at = now - 1
           /\ {records[r.table_name][r.record_id_1],
               records[r.table_name][r.record_id_2]} = {"active", "deleted"}

\* C19: mark_as_not_duplicate on a pending candidate stores it as
\* not_duplicate, reviewed by the user, and leaves every entity row, the audit
\* trail and every other candidate row as they were.
C19_DismissTouchesOneRowOnly ==
    [][ret'.op = "dismiss" =>
          /\ records' = records
          /\ audit_trail' = audit_trail
          /\ ret'.result =>
                \A duplicate \in views :
                    (/\ MarkAsNotDuplicate(duplicate, current_username, FALSE)
                     /\ PendingRowOf(duplicate) # {})
                    => /\ \A r \in PendingRowOf(duplicate) :
                              [r EXCEPT !.status = "not_duplicate",
                                        !.reviewed_by = current_username,
                                        !.reviewed_at = now] \in potential_duplicates'
                       /\ {r \in potential_duplicates' : r.id # duplicate.id}
                              = {r \in potential_duplicates : r.id # duplicate.id}
                       /\ \A r \in potential_duplicates' :
                              r.id = duplicate.id => r.status = "not_duplicate"
          /\ ~ret'.result => potential_duplicates' = potential_duplicates]_vars

\* a dismissal has returned True: its candidate is stored as not_duplicate,
\* reviewed by the user, beside a candidate that is still pending
C19_Witness ==
    /\ ret.op = "dismiss" /\ ret.result
    /\ \E r, o \in potential_duplicates :
           /\ r.status = "not_duplicate" /\ r.reviewed_by = current_username
           /\ r.reviewed_at = now - 1
           /\ o.id # r.id /\ o.status = "pending"

\* the records of a loaded candidate that the merge of another candidate has
\* deleted
DeletedByOtherMerge(duplicate) ==
    {b \in {duplicate.record_id_1, duplicate.record_id_2} :
        /\ records[duplicate.table_name][b] = "deleted"
        /\ \E m \in potential_duplicates :
               /\ m.id # duplicate.id /\ m.status = "merged"
               /\ m.table_name = duplicate.table_name
               /\ b \in {m.record_id_1, m.record_id_2}}

\* C20: once a merge has deleted a record, get_duplicate_details on another
\* pending candidate that references it does not return both records: a
\* record is reported missing and the page offers no merge of that candidate.
C20_DetailsOfOrphanedCandidateNotFound ==
    [][ret'.op = "details" =>
          \A duplicate \in views :
              (/\ ShowDuplicateComparison(duplicate)
               /\ PendingRowOf(duplicate) # {}
               /\ DeletedByOtherMerge(duplicate) # {})
              => /\ None \in {ret'.record1, ret'.record2}
                 /\ ~ret'.offered]_vars

(* ---------------------------------------------------------------------- *)
(* Resolution of a candidate that is no longer stored (Spec)               *)
(* ---------------------------------------------------------------------- *)

\* the stored rows with the id of the loaded candidate duplicate
StoredRowOf(duplicate) == {r \in potential_duplicates : r.id = duplicate.id}

\* C21: a resolution written for a candidate id that is not in the store (the
\* row was removed after the candidate was loaded) is reported as a failure,
\* not as a success, and leaves the stored rows unchanged.
C21_ResolutionOfMissingRowFails ==
    [][ret'.op = "dismiss" =>
          \A duplicate \in views :
              (/\ MarkAsNotDuplicate(duplicate, current_username, FALSE)
               /\ StoredRowOf(duplicate) = {})
              => /\ ~ret'.result
                 /\ potential_duplicates' = potential_duplicates]_vars

(* ---------------------------------------------------------------------- *)
(* Thresholds outside [0, 1] (SpecRange)                                   *)
(* ---------------------------------------------------------------------- *)

\* C22: a detect_* call or run_all_duplicate_detection with a threshold below
\* 0 or above 1 fails (raises) and creates no candidate row.
C22_ThresholdOutOfRangeRejected ==
    [][(/\ ret'.op \in {"detect", "detect_all"}
        /\ (ret'.threshold < 0 \/ ret'.threshold > 10000))
       => /\ ret'.raised
          /\ potential_duplicates' = potential_duplicates]_vars

(* ---------------------------------------------------------------------- *)
(* Stored candidates and what the pages read of them (Spec)                *)
(* ---------------------------------------------------------------------- *)

\* C23: in every state of potential_duplicates a pending row has reviewed_by
\* and reviewed_at unset, and a merged or not_duplicate row has reviewed_by
\* set to the user whose call resolved it: a resolved row is either as it was
\* stored before the step, or written by a merge or dismissal of this step
\* with the acting user as reviewed_by.
C23_ReviewerSetExactlyWhenResolved ==
    [][\A r \in potential_duplicates' :
          /\ r.status \in {"pending"} \cup ResolvedStatuses
          /\ r.status = "pending" => r.reviewed_by = None /\ r.reviewed_at = 0
          /\ r.status \in ResolvedStatuses =>
                \/ r \in potential_duplicates
                \/ /\ ret'.op \in {"merge", "dismiss"}
                   /\ r.reviewed_by = current_username]_vars

\* a row resolved by one reviewer and a row resolved by the other are stored
C23_Witness ==
    \E r, o \in potential_duplicates :
        /\ r.status \in ResolvedStatuses /\ r.reviewed_by = "alice"
        /\ o.status \in ResolvedStatuses /\ o.reviewed_by = "bob"

\* the stored row with id i
RowById(i) == CHOOSE r \in potential_duplicates : r.id = i

\* C24: get_pending(table_name) returns exactly the stored rows whose status is
\* pending, of the given table when one is given, each once, ordered by
\* similarity_score descending; no resolved row is in the list.
C24_GetPendingExactlyPendingByScore ==
    [][ret'.op = "get_pending" =>
          \A tf \in Tables \cup {None} :
              GetPending(tf) =>
                  LET result == ret'.result
                      ids == {result[i] : i \in 1..Len(result)}
                  IN /\ ids = {r.id : r \in {x \in potential_duplicates :
                                                /\ x.status = "pending"
                                                /\ tf # None => x.table_name = tf}}
                     /\ Len(result) = Cardinality(ids)
                     /\ \A i, j \in 1..Len(result) :
                            i < j => RowById(result[i]).similarity_score
                                       >= RowById(result[j]).similarity_score
                     /\ \A i \in ids : RowById(i).status \notin ResolvedStatuses]_vars

\* get_pending has returned two pending rows, the one of the higher score first
C24_Witness ==
    /\ ret.op = "get_pending"
    /\ Len(ret.result) = 2
    /\ RowById(ret.result[1]).similarity_score > RowById(ret.result[2]).similarity_score
    /\ \A i \in 1..2 : RowById(ret.result[i]).status = "pending"

\* C25: for every table and every two ids, in every state of the store,
\* _duplicate_exists(table, id1, id2) = _duplicate_exists(table, id2, id1).
C25_DuplicateExistsSymmetric ==
    \A t \in Tables : \A id1, id2 \in Ids :
        DuplicateExists(potential_duplicates, t, id1, id2)
            = DuplicateExists(potential_duplicates, t, id2, id1)

\* a pair is stored and _duplicate_exists finds it by its ids in the order
\* opposite to the stored one
C25_Witness ==
    \E r \in potential_duplicates :
        /\ r.record_id_1 # r.record_id_2
        /\ DuplicateExists(potential_duplicates, r.table_name, r.record_id_2, r.record_id_1)
        /\ \A o \in potential_duplicates :
               o.table_name = r.table_name =>
                   ~(o.record_id_1 = r.record_id_2 /\ o.record_id_2 = r.record_id_1)

(* ---------------------------------------------------------------------- *)
(* Merges that meet (Spec)                                                 *)
(* ---------------------------------------------------------------------- *)

\* C26: of two pending candidates that share a record, once the merge of one
\* has deleted the shared record, a merge of the other that keeps the shared
\* record is rejected: it deletes no record, does not store its candidate as
\* merged, and reports failure.
C26_MergeIntoDeletedRecordRejected ==
    [][ret'.op = "merge" =>
          \A duplicate \in views :
              \A keep \in DeletedByOtherMerge(duplicate) :
                  (/\ Merge(duplicate, keep, current_username, "none")
                   /\ PendingRowOf(duplicate) # {})
                  => /\ records' = records
                     /\ potential_duplicates' = potential_duplicates
                     /\ ~ret'.result]_vars

\* C28: the merges of one candidate never delete both of its records: a
\* merge of a candidate that is already stored as merged with one record
\* deleted, called from a copy loaded before, leaves at least one of the two
\* records active.
C28_MergesOfOneCandidateKeepOneRecord ==
    [][ret'.op = "merge" =>
          \A duplicate \in views :
              \A keep \in {duplicate.record_id_1, duplicate.record_id_2} :
                  LET t == duplicate.table_name IN
                  (/\ Merge(duplicate, keep, current_username, "none")
                   /\ \E r \in StoredRowOf(duplicate) : r.status = "merged"
                   /\ {records[t][duplicate.record_id_1],
                       records[t][duplicate.record_id_2]} = {"active", "deleted"})
                  => "active" \in {records'[t][duplicate.record_id_1],
                                   records'[t][duplicate.record_id_2]}]_vars

(* ---------------------------------------------------------------------- *)
(* Cleanup of resolved candidates (Spec)                                   *)
(* ---------------------------------------------------------------------- *)

\* C29: the cleanup of resolved duplicates removes exactly the rows whose
\* status is merged or not_duplicate and leaves every pending row, every
\* entity row and the audit trail unchanged.
C29_CleanupRemovesResolvedOnly ==
    [][ret'.op = "cleanup" =>
          /\ potential_duplicates' = {r \in potential_duplicates : r.status = "pending"}
          /\ \A r \in potential_duplicates \ potential_duplicates' :
                 r.status \in ResolvedStatuses
          /\ records' = records
          /\ audit_trail' = audit_trail]_vars

\* the cleanup has removed a resolved row and a pending row is still stored
C29_Witness ==
    /\ ret.op = "cleanup"
    /\ Cardinality(potential_duplicates) < nextId - 1
    /\ \E r \in potential_duplicates : r.status = "pending"
    /\ \A r \in potential_duplicates : r.status \notin ResolvedStatuses

(* ---------------------------------------------------------------------- *)
(* X.delete and its two connections (SpecLock)                             *)
(* ---------------------------------------------------------------------- *)

\* C27: X.delete of an existing record, run alone, completes with both
\* effects committed: the record's status is deleted, exactly one DELETE
\* entry with changed_by = the acting user is appended to audit_trail, and the
\* call returns True; the INSERT on the second connection neither blocks nor
\* fails.
C27_DeleteCommitsStatusAndAudit ==
    [][\A p \in Runners :
          (/\ runs[p].pc = "updated" /\ runs'[p].pc = "returned"
           /\ WriteLockHolders = {<<p, 1>>})
          => /\ ret'.result = "True"
             /\ records'[runs[p].table][runs[p].id] = "deleted"
             /\ audit_trail' = Append(audit_trail,
                                      AuditEntry(runs[p].table, runs[p].id,
                                                 current_username))]_vars

====
